---- MODULE Spec2Model ----
(***************************************************************************)
(* State-machine model of the components of cheatham-arboriculture:       *)
(*   GalleryCarousel   (src/src/App.jsx, the clone-loop carousel)          *)
(*   AutoScrollGallery (src/src/components/AutoScrollGallery.jsx, the      *)
(*                      infinite strip)                                    *)
(*   useParallaxRelative and LogoMark (src/src/App.jsx, the parallax       *)
(*                      layers)                                            *)
(*   App               (src/src/App.jsx, the section tracker and the       *)
(*                      anchor-link handler)                               *)
(* and of the cleanups their effects return.                               *)
(* One action models one handler together with the re-render and the      *)
(* effects React runs for the state it set.  Lengths are in abstract      *)
(* layout units, times in milliseconds.                                    *)
(***************************************************************************)
EXTENDS Integers, Sequences, FiniteSets, TLC

\* ------------------------------------------------------------------ bounds
\* Largest number of images handed to a component.
MaxImages == 3
\* How far beyond [0, N+1] the model follows the carousel index.
IndexCap == 2
\* Largest half of el.scrollWidth (the smallest is MinHalf).
MaxHalf == 6
MinHalf == 4

\* --------------------------------------------------------------- constants
\* Math.min(ts - prev, 50)
ClampMs == 50
\* speed / 1000: px per second to px per millisecond
MsPerSec == 1000

VARIABLES
    op,            \* the handler that ran last
    reduced,       \* window.matchMedia("(prefers-reduced-motion: reduce)").matches
    \* GalleryCarousel
    images,        \* prop: the image list (image ids)
    index,         \* useState(1)
    isAnimating,   \* useState(true)
    paused,        \* useState(false)
    gcRafId,       \* the re-enable effect's pending requestAnimationFrame
    transitioning, \* a CSS transform transition of the track is in flight
    gcTimer,       \* the autoplay effect's setInterval is running
    gcEndListener, \* the transitionend listener is attached to the track
    \* AutoScrollGallery
    safeImages,    \* the normalized image list (image ids)
    speed,         \* prop: layout units per second
    pauseOnHover,  \* prop
    isPaused,      \* useState(false)
    hovering,      \* the pointer is over the gallery region
    visible,       \* isIntersecting of the last IntersectionObserver entry
    scrollLeft,    \* el.scrollLeft
    scrollWidth,   \* el.scrollWidth
    clientWidth,   \* el.clientWidth
    rafId,         \* the ticker effect's requestAnimationFrame loop is running
    ro,            \* the ticker effect's ResizeObserver is observing
    io,            \* the off-screen effect's IntersectionObserver is observing
    asLoops,       \* the requestAnimationFrame loops of step that are running
    asObservers,   \* the ResizeObservers that are connected
    asSteps,       \* history: step callbacks run in the last rendered frame
    manual,        \* history: a prev/next button has been used
    \* useParallaxRelative / LogoMark (one instance)
    pKind,         \* "hook" (useParallaxRelative) or "logo" (LogoMark)
    bg,            \* bgRef.current / parallaxRef.current is an element
    container,     \* the container element exists
    pSpeed,        \* speed / parallax prop, in hundredths
    offsetY,       \* LogoMark's offsetY prop (0 for the hook)
    scrollY,       \* window.scrollY
    pageTop,       \* container.getBoundingClientRect().top + window.scrollY
    listening,     \* the scroll and resize listeners are attached
    raf,           \* let raf: 0, or the id of the requested frame
    frameQueue,    \* the browser's outstanding frame callbacks (captured y)
    lastY,         \* let lastY
    containerTop,  \* let containerTop
    transform,     \* the layer's style.transform
    writes,        \* transform writes of the last rendered frame
    burst,         \* history: onScroll calls since the last frame (2 = more)
    \* App: the section tracker and the anchor-link handler
    active,        \* useState("services")
    obs,           \* the IntersectionObserver is observing the sections
    clickListener, \* the document click listener is attached
    scrollTarget,  \* the element of the last scrollIntoView ("" for none)
    lastSeen,      \* history: id of the latest intersecting entry reported
    firstHit,      \* history: id of the last batch's first intersecting entry
    batchHits,     \* history: intersecting entries of the last batch
    \* unmounting
    study,         \* the component whose unmount is followed ("none": no unmount)
    cleanups       \* history: how often its cleanup has run (2 = more)

gcVars == <<images, index, isAnimating, paused, gcRafId, transitioning,
            gcTimer, gcEndListener>>
asVars == <<safeImages, speed, pauseOnHover, isPaused, hovering, visible,
            scrollLeft, scrollWidth, clientWidth, rafId, ro, io, asLoops,
            asObservers, asSteps, manual>>
pxVars == <<pKind, bg, container, pSpeed, offsetY, scrollY, pageTop, listening,
            raf, frameQueue, lastY, containerTop, transform, writes, burst>>
stVars == <<active, obs, clickListener, scrollTarget, lastSeen, firstHit, batchHits>>
tdVars == <<study, cleanups>>
vars == <<op, reduced, gcVars, asVars, pxVars, stVars, tdVars>>

\* The components of the page that hold subscriptions.
Components == {"parallax", "tracker", "strip", "carousel"}

\* The component's elements are in the document: it has not been unmounted.
Mounted(c) == ~(study = c /\ cleanups > 0)

\* No component is unmounted.
NoUnmount == study = "none" /\ cleanups = 0

\* ------------------------------------------------------- GalleryCarousel
\* An image list of n distinct images.
ImageList(n) == [i \in 1..n |-> i]

\* slides = [images[last], ...images, images[0]], or [] for no image.
slides == IF Len(images) = 0 THEN <<>>
          ELSE <<images[Len(images)]>> \o images \o <<images[1]>>

\* JavaScript's %: the remainder takes the sign of the dividend.
JsRem(a, b) == IF a >= 0 THEN a % b ELSE 0 - ((0 - a) % b)

\* realIndex = images.length ? (index - 1 + images.length) % images.length : 0
realIndex == IF Len(images) # 0
             THEN JsRem(index - 1 + Len(images), Len(images)) ELSE 0

\* The track's style: a change of the transform while the transition
\* property is set starts (or retargets) a transition; with "none" the
\* transform jumps and a running transition is dropped.
TrackTransition(oldIndex, newIndex, animating, running) ==
    IF newIndex = oldIndex THEN running /\ animating ELSE animating

\* A slip in the re-enable effect: no frame is requested.
ReenableEffectNever(animating) == FALSE

\* The re-enable effect: a frame is requested while isAnimating is false.
ReenableEffect(animating) == ~animating

\* A slip in the autoplay effect: the pause flag is not read.
AutoplayEffectIgnoresPause(p, len) == len # 0

\* The autoplay effect: if (paused || !slides.length) return; setInterval(...)
AutoplayEffect(p, len) == ~p /\ len # 0

GcInit ==
    /\ images \in {ImageList(n) : n \in 1..MaxImages}
    /\ index = 1
    /\ isAnimating = TRUE
    /\ paused = FALSE
    /\ gcRafId = ReenableEffect(TRUE)
    /\ transitioning = FALSE
    /\ gcTimer = AutoplayEffect(FALSE, Len(slides))
    /\ gcEndListener = TRUE

\* The state after a handler set index and isAnimating: render, effects.
GcCommit(newIndex, animating) ==
    /\ index' = newIndex
    /\ isAnimating' = animating
    /\ gcRafId' = ReenableEffect(animating)
    /\ transitioning' = TrackTransition(index, newIndex, animating, transitioning)

\* The model follows the index only this far outside the slide sequence.
Followed(i) == i >= 0 - IndexCap /\ i <= Len(images) + 1 + IndexCap

\* Autoplay: setInterval(() => { setIndex(i => i + 1); setAnimating(true) })
AutoplayActive == ~paused /\ Len(slides) # 0

AutoplayTick ==
    /\ gcTimer
    /\ AutoplayActive
    /\ Followed(index + 1)
    /\ GcCommit(index + 1, TRUE)
    /\ op' = "tick"
    /\ UNCHANGED <<reduced, images, paused, gcTimer, gcEndListener, asVars, pxVars, stVars, tdVars>>

\* go(dir): setAnimating(true); setIndex(i => i + dir)
go(dir) ==
    /\ Mounted("carousel")
    /\ Followed(index + dir)
    /\ GcCommit(index + dir, TRUE)
    /\ op' = IF dir = 1 THEN "next" ELSE "prev"
    /\ UNCHANGED <<reduced, images, paused, gcTimer, gcEndListener, asVars, pxVars, stVars, tdVars>>

\* A slip in the dot handler: the leading clone is not skipped.
DotTargetRaw(i) == i

\* Dot i (0-based) selects slide i + 1, past the leading clone.
DotTarget(i) == i + 1

\* Dot i (0-based): setIndex(i + 1); setAnimating(true)
DotClick(i) ==
    /\ Mounted("carousel")
    /\ GcCommit(DotTarget(i), TRUE)
    /\ op' = "dot"
    /\ UNCHANGED <<reduced, images, paused, gcTimer, gcEndListener, asVars, pxVars, stVars, tdVars>>

\* A slip in the backward snap: the trailing clone instead of the last slide.
OnEndIndexOffByOne(i, len) ==
    IF i = len - 1 THEN 1 ELSE IF i = 0 THEN len - 1 ELSE i

\* onEnd: the index the transitionend handler sets.
OnEndIndex(i, len) ==
    IF i = len - 1 THEN 1 ELSE IF i = 0 THEN len - 2 ELSE i

\* A slip in the snap: the transition is left switched on.
OnEndAnimatingKept(i, len, animating) == animating

\* onEnd: the animation flag the transitionend handler sets.
OnEndAnimating(i, len, animating) ==
    IF i = len - 1 \/ i = 0 THEN FALSE ELSE animating

\* transitionend on the track.
onEnd ==
    /\ gcEndListener
    /\ transitioning
    /\ index' = OnEndIndex(index, Len(slides))
    /\ isAnimating' = OnEndAnimating(index, Len(slides), isAnimating)
    /\ gcRafId' = ReenableEffect(isAnimating')
    /\ transitioning' = FALSE
    /\ op' = "onEnd"
    /\ UNCHANGED <<reduced, images, paused, gcTimer, gcEndListener, asVars, pxVars, stVars, tdVars>>

\* A rendered frame: the re-enable effect's callback, setAnimating(true).
GcFrame ==
    /\ gcRafId
    /\ GcCommit(index, TRUE)
    /\ op' = "gcFrame"
    /\ UNCHANGED <<reduced, images, paused, gcTimer, gcEndListener, asVars, pxVars, stVars, tdVars>>

\* onMouseEnter / onMouseLeave of the carousel.
GcMouseEnter ==
    /\ Mounted("carousel")
    /\ ~paused
    /\ paused' = TRUE
    /\ gcTimer' = AutoplayEffect(TRUE, Len(slides))
    /\ op' = "gcEnter"
    /\ UNCHANGED <<reduced, images, index, isAnimating, gcRafId, transitioning,
                   gcEndListener, asVars, pxVars, stVars, tdVars>>

GcMouseLeave ==
    /\ Mounted("carousel")
    /\ paused
    /\ paused' = FALSE
    /\ gcTimer' = AutoplayEffect(FALSE, Len(slides))
    /\ op' = "gcLeave"
    /\ UNCHANGED <<reduced, images, index, isAnimating, gcRafId, transitioning,
                   gcEndListener, asVars, pxVars, stVars, tdVars>>

\* ----------------------------------------------------- AutoScrollGallery
\* Props and layouts the model draws from.
Speeds == {40, 80}
\* ts - prev of a step; the first ts after the effect ran may precede prev,
\* a frame's timestamp being the time the frame began.
Elapsed == {-25, 0, 25, 50, 1000}
ClientWidths == {4, 8}
ScrollWidths == {2 * h : h \in MinHalf..MaxHalf}
CardWidths == {2, 3}

Min(a, b) == IF a <= b THEN a ELSE b
Max(a, b) == IF a >= b THEN a ELSE b

\* A slip in the loop test: a single image already loops.
hasLoopFromOne == Len(safeImages) >= 1

\* hasLoop = safeImages.length >= 2
hasLoop == Len(safeImages) >= 2

\* track = hasLoop ? [...safeImages, ...safeImages] : safeImages
track == IF hasLoop THEN safeImages \o safeImages ELSE safeImages

\* The DOM keeps el.scrollLeft within [0, scrollWidth - clientWidth].
SetScrollLeft(v, sw, cw) == Max(0, Min(v, sw - cw))

\* A slip in the ticker effect: the reduced-motion preference is not read.
TickerStartsAnyway(loop, red) == loop

\* The ticker effect runs past its early returns (el is mounted).
TickerStarts(loop, red) == loop /\ ~red

\* A slip in the seamless reset: > instead of >=.
WrapHalfStrict(sl, half) == IF sl > half THEN sl - half ELSE sl

\* if (el.scrollLeft >= half) el.scrollLeft -= half
WrapHalf(sl, half) == IF sl >= half THEN sl - half ELSE sl

\* step: const dt = Math.min(ts - prev, 50); el.scrollLeft += pxPerMs * dt
Advance(sl, elapsed) == sl + (speed * Min(elapsed, ClampMs)) \div MsPerSec

\* step, the not-paused branch: el.scrollLeft after the += assignment.
StepMoved(sl, elapsed) ==
    SetScrollLeft(Advance(sl, elapsed), scrollWidth, clientWidth)

\* step, the not-paused branch: advance, then the seamless reset.
StepScroll(sl, elapsed) ==
    SetScrollLeft(WrapHalf(StepMoved(sl, elapsed), scrollWidth \div 2),
                  scrollWidth, clientWidth)

\* onResize: if (half > 0) el.scrollLeft = el.scrollLeft % half
ResizeScroll(sl, sw, cw) ==
    IF sw \div 2 > 0 THEN SetScrollLeft(JsRem(sl, sw \div 2), sw, cw) ELSE sl

\* A slip in the effect's cleanup: what it held is not released.
RestartLeaks(n, held, starts) == n + (IF starts THEN 1 ELSE 0)

\* A run of the ticker effect: the cleanup of the previous run releases what
\* that run held (cancelAnimationFrame(rafId), ro.disconnect()), then the
\* new run acquires its own unless it returns early.
Restart(n, held, starts) ==
    n - (IF held THEN 1 ELSE 0) + (IF starts THEN 1 ELSE 0)

\* The ticker effect after a render: it is run again when one of its
\* dependencies [hasLoop, speed, isPaused] changed.
TickerEffect(changed) ==
    /\ asLoops' = IF changed
                  THEN Restart(asLoops, rafId, TickerStarts(hasLoop, reduced))
                  ELSE asLoops
    /\ asObservers' = IF changed
                      THEN Restart(asObservers, ro, TickerStarts(hasLoop, reduced))
                      ELSE asObservers

AsInit ==
    /\ safeImages \in {ImageList(n) : n \in 0..MaxImages}
    /\ speed \in Speeds
    /\ pauseOnHover \in BOOLEAN
    /\ isPaused = FALSE
    /\ hovering = FALSE
    /\ visible = TRUE
    /\ scrollLeft = 0
    /\ clientWidth \in ClientWidths
    /\ scrollWidth \in {w \in ScrollWidths : w >= clientWidth}
    /\ rafId = TickerStarts(hasLoop, reduced)
    /\ ro = TickerStarts(hasLoop, reduced)
    /\ io = TRUE
    /\ asLoops = Restart(0, FALSE, rafId)
    /\ asObservers = Restart(0, FALSE, ro)
    /\ asSteps = 0
    /\ manual = FALSE

\* What the last frame did to the strip.
FrameOps == {"frameIdle", "framePaused", "frameAdvance", "frameWrap"}

\* A rendered frame: the ticker's step callback runs if it was requested.
\* The effect is re-run on every change of isPaused, so the step that runs
\* is the one that closed over the current isPaused.
AsFrame(elapsed) ==
    /\ asSteps' = asLoops
    /\ scrollLeft' = IF rafId /\ ~isPaused
                     THEN StepScroll(scrollLeft, elapsed) ELSE scrollLeft
    /\ op' = IF ~rafId THEN "frameIdle"
             ELSE IF isPaused THEN "framePaused"
             ELSE IF StepMoved(scrollLeft, elapsed) >= scrollWidth \div 2
                  THEN "frameWrap" ELSE "frameAdvance"
    /\ UNCHANGED <<reduced, gcVars, pxVars, stVars, tdVars, safeImages, speed, pauseOnHover, isPaused,
                   hovering, visible, scrollWidth, clientWidth, rafId, ro, io,
                   asLoops, asObservers, manual>>

\* The container's box changes (or a new observer reports its first
\* observation): the DOM clamps scrollLeft, then onResize runs if observed.
AsResize(cw, sw) ==
    /\ Mounted("strip")
    /\ sw >= cw
    /\ clientWidth' = cw
    /\ scrollWidth' = sw
    /\ scrollLeft' = IF ro THEN ResizeScroll(SetScrollLeft(scrollLeft, sw, cw), sw, cw)
                     ELSE SetScrollLeft(scrollLeft, sw, cw)
    /\ op' = "resize"
    /\ UNCHANGED <<reduced, gcVars, pxVars, stVars, tdVars, safeImages, speed, pauseOnHover, isPaused,
                   hovering, visible, rafId, ro, io, asLoops, asObservers, asSteps,
                   manual>>

\* The positions from a to b, both included.
Between(a, b) == Min(a, b)..Max(a, b)

\* scrollByOneCard(dir): el.scrollBy({ left: dir * cardWidth, behavior: "smooth" }).
\* The smooth scroll ends at its target unless a running, unpaused ticker
\* assigns scrollLeft first and so cuts it short on the way.
\* The buttons are rendered when showControls && hasLoop.
scrollByOneCard(dir, cardWidth) ==
    /\ Mounted("strip")
    /\ hasLoop
    /\ LET target == SetScrollLeft(scrollLeft + dir * cardWidth, scrollWidth, clientWidth)
       IN  \E p \in Between(scrollLeft, target) :
              /\ (rafId /\ ~isPaused) \/ p = target
              /\ scrollLeft' = p
    /\ manual' = TRUE
    /\ op' = IF dir = 1 THEN "scrollNext" ELSE "scrollPrev"
    /\ UNCHANGED <<reduced, gcVars, pxVars, stVars, tdVars, safeImages, speed, pauseOnHover, isPaused,
                   hovering, visible, scrollWidth, clientWidth, rafId, ro, io,
                   asLoops, asObservers, asSteps>>

\* onMouseEnter={pauseOnHover ? () => setIsPaused(true) : undefined}
AsMouseEnter ==
    /\ Mounted("strip")
    /\ ~hovering
    /\ hovering' = TRUE
    /\ isPaused' = IF pauseOnHover THEN TRUE ELSE isPaused
    /\ TickerEffect(isPaused' # isPaused)
    /\ op' = "asEnter"
    /\ UNCHANGED <<reduced, gcVars, pxVars, stVars, tdVars, safeImages, speed, pauseOnHover, visible,
                   scrollLeft, scrollWidth, clientWidth, rafId, ro, io, asSteps,
                   manual>>

\* onMouseLeave={pauseOnHover ? () => setIsPaused(false) : undefined}
AsMouseLeave ==
    /\ Mounted("strip")
    /\ hovering
    /\ hovering' = FALSE
    /\ isPaused' = IF pauseOnHover THEN FALSE ELSE isPaused
    /\ TickerEffect(isPaused' # isPaused)
    /\ op' = "asLeave"
    /\ UNCHANGED <<reduced, gcVars, pxVars, stVars, tdVars, safeImages, speed, pauseOnHover, visible,
                   scrollLeft, scrollWidth, clientWidth, rafId, ro, io, asSteps,
                   manual>>

\* The parent renders the gallery with another speed prop.
AsSetSpeed(s) ==
    /\ Mounted("strip")
    /\ s # speed
    /\ speed' = s
    /\ TickerEffect(TRUE)
    /\ op' = "asSpeed"
    /\ UNCHANGED <<reduced, gcVars, pxVars, stVars, tdVars, safeImages, pauseOnHover,
                   isPaused, hovering, visible, scrollLeft, scrollWidth, clientWidth,
                   rafId, ro, io, asSteps, manual>>

\* IntersectionObserver callback: if (!entry.isIntersecting) setIsPaused(true)
AsIntersection(isIntersecting) ==
    /\ io
    /\ isIntersecting # visible
    /\ visible' = isIntersecting
    /\ isPaused' = IF ~isIntersecting THEN TRUE ELSE isPaused
    /\ TickerEffect(isPaused' # isPaused)
    /\ op' = "io"
    /\ UNCHANGED <<reduced, gcVars, pxVars, stVars, tdVars, safeImages, speed, pauseOnHover, hovering,
                   scrollLeft, scrollWidth, clientWidth, rafId, ro, io, asSteps,
                   manual>>

\* --------------------------------------- useParallaxRelative / LogoMark
\* Scroll positions, container tops and speed factors the model draws from.
ScrollYs == {0, 100, 500}
PageTops == {100, 300}
HookSpeeds == {25, 18}
LogoSpeeds == {12}
LogoOffsets == {0, -6}

\* A slip in the offset: the container's top is not subtracted.
OffsetNoBaseline(y, top, pct) == (y * pct) \div 100

\* const localY = y - containerTop; const offset = localY * speed
Offset(y, top, pct) == ((y - top) * pct) \div 100

\* bg.style.transform = `translateY(${offset}px) scale(1.05)` (hook);
\* el.style.transform = `translateY(${offsetY + offset}px)` (logo)
Transform(kind, y, top, pct, offY) ==
    [set |-> TRUE, ty |-> offY + Offset(y, top, pct), scale |-> (kind = "hook")]

\* The style before any write.
NoTransform == [set |-> FALSE, ty |-> 0, scale |-> FALSE]

\* A slip in the mount guard: the container is not tested.
EffectRunsWithoutContainer(kind, b, c, red) ==
    IF kind = "hook" THEN b ELSE b /\ ~red

\* The effect runs past its early return: if (!bg || !container) return (hook);
\* if (!el || reduced) return (logo).
EffectRuns(kind, b, c, red) ==
    IF kind = "hook" THEN b /\ c ELSE b /\ ~red

\* A slip in onScroll: the reduced-motion preference is not tested.
ScrollHandlerRunsAnyway(kind, red) == TRUE

\* onScroll: if (reduced) return (hook; the logo attaches nothing when reduced)
ScrollHandlerRuns(kind, red) == IF kind = "hook" THEN ~red ELSE TRUE

\* A slip in the throttle: raf = requestAnimationFrame(...) on every event.
RequestAlways(r) == TRUE

\* raf ||= requestAnimationFrame(...): a frame is requested only if raf is 0.
RequestNeeded(r) == r = 0

\* getContainerTop(): the hook's container exists; the logo's may be null,
\* and then (undefined + scrollY || 0) is 0.
GetContainerTop(c, top) == IF c THEN top ELSE 0

\* onScroll on the closure state [lastY, raf, frameQueue] with window.scrollY = y:
\* the requested callback closes over y.
OnScroll(st, y) ==
    IF ~ScrollHandlerRuns(pKind, reduced) THEN st
    ELSE IF y = st.lastY THEN st
    ELSE [lastY |-> y,
          raf |-> IF RequestNeeded(st.raf) THEN 1 ELSE st.raf,
          frameQueue |-> IF RequestNeeded(st.raf)
                         THEN Append(st.frameQueue, y) ELSE st.frameQueue]

\* A slip in onResize: lastY is not reset.
ResizeLastYKept(ly) == ly

\* onResize: lastY = -1
ResizeLastY(ly) == -1

\* onResize on the closure state: lastY = -1; onScroll()
OnResize(st, y) ==
    OnScroll([lastY |-> ResizeLastY(st.lastY), raf |-> st.raf,
              frameQueue |-> st.frameQueue], y)

\* The closure state of a fresh effect: let raf = 0, lastY = -1.
FreshClosure == [lastY |-> -1, raf |-> 0, frameQueue |-> <<>>]

\* After mount: the effect has run (or returned early); a running effect
\* read containerTop, called onResize() once and attached the listeners.
PxInit ==
    /\ pKind \in {"hook", "logo"}
    /\ bg \in BOOLEAN
    /\ container \in BOOLEAN
    /\ pSpeed \in (IF pKind = "hook" THEN HookSpeeds ELSE LogoSpeeds)
    /\ offsetY \in (IF pKind = "hook" THEN {0} ELSE LogoOffsets)
    /\ scrollY \in ScrollYs
    /\ pageTop \in PageTops
    /\ listening = EffectRuns(pKind, bg, container, reduced)
    /\ LET st == IF listening THEN OnResize(FreshClosure, scrollY) ELSE FreshClosure
       IN  /\ raf = st.raf
           /\ frameQueue = st.frameQueue
           /\ lastY = st.lastY
    /\ containerTop = IF listening THEN GetContainerTop(container, pageTop) ELSE 0
    /\ transform = NoTransform
    /\ writes = 0
    /\ burst = IF listening THEN 1 ELSE 0

\* A page without a parallax layer.
PxIdle ==
    /\ pKind = "hook" /\ bg = FALSE /\ container = FALSE
    /\ pSpeed = 25 /\ offsetY = 0 /\ scrollY = 0 /\ pageTop = 100
    /\ listening = FALSE /\ raf = 0 /\ frameQueue = <<>> /\ lastY = -1
    /\ containerTop = 0 /\ transform = NoTransform /\ writes = 0 /\ burst = 0

\* The model follows at most this many outstanding frame callbacks.
QueueCap == 2

Saturate(n) == IF n >= 2 THEN 2 ELSE n

\* The window scrolls to y; the scroll listener, if attached, runs onScroll.
PxScroll(y) ==
    /\ Len(frameQueue) < QueueCap
    /\ scrollY' = y
    /\ LET st == IF listening
                 THEN OnScroll([lastY |-> lastY, raf |-> raf, frameQueue |-> frameQueue], y)
                 ELSE [lastY |-> lastY, raf |-> raf, frameQueue |-> frameQueue]
       IN  /\ lastY' = st.lastY
           /\ raf' = st.raf
           /\ frameQueue' = st.frameQueue
    /\ burst' = IF listening THEN Saturate(burst + 1) ELSE burst
    /\ op' = "pScroll"
    /\ UNCHANGED <<reduced, gcVars, asVars, stVars, tdVars, pKind, bg, container, pSpeed, offsetY,
                   pageTop, listening, containerTop, transform, writes>>

\* The window is resized and the container moves to top; the resize
\* listener, if attached, runs onResize.
PxResize(top) ==
    /\ Len(frameQueue) < QueueCap
    /\ pageTop' = top
    /\ containerTop' = IF listening THEN GetContainerTop(container, top) ELSE containerTop
    /\ LET st == IF listening
                 THEN OnResize([lastY |-> lastY, raf |-> raf, frameQueue |-> frameQueue], scrollY)
                 ELSE [lastY |-> lastY, raf |-> raf, frameQueue |-> frameQueue]
       IN  /\ lastY' = st.lastY
           /\ raf' = st.raf
           /\ frameQueue' = st.frameQueue
    /\ burst' = IF listening THEN Saturate(burst + 1) ELSE burst
    /\ op' = "pResize"
    /\ UNCHANGED <<reduced, gcVars, asVars, stVars, tdVars, pKind, bg, container, pSpeed, offsetY,
                   scrollY, listening, transform, writes>>

\* A rendered frame: every outstanding callback runs, in request order;
\* each writes the transform from the y it closed over and sets raf = 0.
PxFrame ==
    /\ transform' = IF frameQueue = <<>> THEN transform
                    ELSE Transform(pKind, frameQueue[Len(frameQueue)],
                                   containerTop, pSpeed, offsetY)
    /\ raf' = IF frameQueue = <<>> THEN raf ELSE 0
    /\ writes' = Len(frameQueue)
    /\ frameQueue' = <<>>
    /\ burst' = 0
    /\ op' = "pFrame"
    /\ UNCHANGED <<reduced, gcVars, asVars, stVars, tdVars, pKind, bg, container, pSpeed, offsetY,
                   scrollY, pageTop, listening, lastY, containerTop>>

\* ------------------------------------------------- App: section tracker
\* const sections = [{id: "services"}, {id: "process"}, {id: "gallery"}, {id: "contact"}]
sections == <<"services", "process", "gallery", "contact">>

SectionIds == {sections[i] : i \in 1..Len(sections)}

\* The elements an a[href^="#"] of the page points at: #top and the sections.
Anchors == {"top"} \cup SectionIds

\* The most entries the model puts in one observer callback.
MaxBatch == 2

\* IntersectionObserver entries: the observed section and isIntersecting.
Entries == [id : SectionIds, isIntersecting : BOOLEAN]

\* A callback's batch holds at most one entry for each observed section.
Batches ==
    UNION {{b \in [1..n -> Entries] :
               \A i, j \in 1..n : b[i].id = b[j].id => i = j} : n \in 1..MaxBatch}

\* A slip in the callback: the first intersecting entry wins.
RECURSIVE FirstIntersectingWins(_, _)
FirstIntersectingWins(a, entries) ==
    IF entries = <<>> THEN a
    ELSE IF Head(entries).isIntersecting THEN Head(entries).id
    ELSE FirstIntersectingWins(a, Tail(entries))

\* entries.forEach((entry) => { if (entry.isIntersecting) setActive(entry.target.id) })
RECURSIVE ForEachEntry(_, _)
ForEachEntry(a, entries) ==
    IF entries = <<>> THEN a
    ELSE ForEachEntry(IF Head(entries).isIntersecting THEN Head(entries).id ELSE a,
                      Tail(entries))

\* The positions of a batch that report an intersection.
Hits(entries) == {i \in 1..Len(entries) : entries[i].isIntersecting}

\* After mount: useState("services"); both effects have run.
StInit ==
    /\ active = "services"
    /\ obs = TRUE
    /\ clickListener = TRUE
    /\ scrollTarget = ""
    /\ lastSeen = ""
    /\ firstHit = ""
    /\ batchHits = 0

\* The observer delivers a batch of entries to the callback.
Observe(entries) ==
    /\ obs
    /\ active' = ForEachEntry(active, entries)
    /\ LET hits == Hits(entries)
       IN  /\ batchHits' = Cardinality(hits)
           /\ firstHit' = IF hits = {} THEN ""
                          ELSE entries[CHOOSE i \in hits : \A j \in hits : i <= j].id
           /\ lastSeen' = IF hits = {} THEN lastSeen
                          ELSE entries[CHOOSE i \in hits : \A j \in hits : i >= j].id
    /\ op' = "observe"
    /\ UNCHANGED <<reduced, gcVars, asVars, pxVars, tdVars, obs, clickListener, scrollTarget>>

\* A slip in the click handler: it also marks the target active.
AnchorActiveSet(a, id) == IF id \in SectionIds THEN id ELSE a

\* onClick never calls setActive.
AnchorActive(a, id) == a

\* A click on an a[href^="#"]: el.scrollIntoView({behavior: "smooth"}).
AnchorClick(id) ==
    /\ clickListener
    /\ scrollTarget' = id
    /\ active' = AnchorActive(active, id)
    /\ op' = "anchor"
    /\ UNCHANGED <<reduced, gcVars, asVars, pxVars, tdVars, obs, clickListener,
                   lastSeen, firstHit, batchHits>>

\* --------------------------------------------------------------- unmount
\* A slip in the cleanup: the requested frame is not cancelled.
CleanupCancelsNothing(r) == FALSE

\* if (raf) cancelAnimationFrame(raf)
CleanupCancels(r) == r # 0

\* The cleanup of the parallax effect: removeEventListener for scroll and
\* resize, and the requested frame cancelled.  raf itself is left as it is.
PxCleanup ==
    /\ study = "parallax"
    /\ listening' = FALSE
    /\ frameQueue' = IF CleanupCancels(raf) THEN <<>> ELSE frameQueue
    /\ cleanups' = Saturate(cleanups + 1)
    /\ op' = "cleanup"
    /\ UNCHANGED <<reduced, gcVars, asVars, stVars, study, pKind, bg, container,
                   pSpeed, offsetY, scrollY, pageTop, raf, lastY, containerTop,
                   transform, writes, burst>>

\* The cleanups of App's effects: removeEventListener("click"), obs.disconnect().
StCleanup ==
    /\ study = "tracker"
    /\ obs' = FALSE
    /\ clickListener' = FALSE
    /\ cleanups' = Saturate(cleanups + 1)
    /\ op' = "cleanup"
    /\ UNCHANGED <<reduced, gcVars, asVars, pxVars, study, active, scrollTarget,
                   lastSeen, firstHit, batchHits>>

\* The cleanups of AutoScrollGallery's effects: cancelAnimationFrame(rafId),
\* ro.disconnect(), io.disconnect().
AsCleanup ==
    /\ study = "strip"
    /\ rafId' = FALSE
    /\ ro' = FALSE
    /\ io' = FALSE
    /\ asLoops' = Restart(asLoops, rafId, FALSE)
    /\ asObservers' = Restart(asObservers, ro, FALSE)
    /\ cleanups' = Saturate(cleanups + 1)
    /\ op' = "cleanup"
    /\ UNCHANGED <<reduced, gcVars, pxVars, stVars, study, safeImages, speed,
                   pauseOnHover, isPaused, hovering, visible, scrollLeft,
                   scrollWidth, clientWidth, asSteps, manual>>

\* The cleanups of GalleryCarousel's effects: clearInterval(id),
\* removeEventListener("transitionend"), cancelAnimationFrame(id).
GcCleanup ==
    /\ study = "carousel"
    /\ gcTimer' = FALSE
    /\ gcEndListener' = FALSE
    /\ gcRafId' = FALSE
    /\ cleanups' = Saturate(cleanups + 1)
    /\ op' = "cleanup"
    /\ UNCHANGED <<reduced, asVars, pxVars, stVars, study, images, index,
                   isAnimating, paused, transitioning>>

\* ------------------------------------------------------- specifications
\* The carousel on a page whose strip is left alone.
Init ==
    /\ op = "mount"
    /\ reduced \in BOOLEAN
    /\ GcInit
    /\ AsInit
    /\ Len(safeImages) = MaxImages /\ speed = 40 /\ pauseOnHover
    /\ clientWidth = 4 /\ scrollWidth = 2 * MinHalf
    /\ PxIdle
    /\ StInit
    /\ NoUnmount

\* The strip on a page whose carousel is left alone.
InitStrip ==
    /\ op = "mount"
    /\ reduced \in BOOLEAN
    /\ GcInit
    /\ Len(images) = MaxImages
    /\ AsInit
    /\ PxIdle
    /\ StInit
    /\ NoUnmount

NextStrip ==
    \/ \E elapsed \in Elapsed : AsFrame(elapsed)
    \/ \E cw \in ClientWidths, sw \in ScrollWidths : AsResize(cw, sw)
    \/ \E dir \in {-1, 1}, w \in CardWidths : scrollByOneCard(dir, w)
    \/ AsMouseEnter
    \/ AsMouseLeave
    \/ \E v \in BOOLEAN : AsIntersection(v)
    \/ \E s \in Speeds : AsSetSpeed(s)

SpecStrip == InitStrip /\ [][NextStrip]_vars

\* One parallax layer on a page whose carousels are left alone.
InitParallax ==
    /\ op = "mount"
    /\ reduced \in BOOLEAN
    /\ GcInit
    /\ Len(images) = MaxImages
    /\ AsInit
    /\ Len(safeImages) = MaxImages /\ speed = 40 /\ pauseOnHover
    /\ clientWidth = 4 /\ scrollWidth = 2 * MinHalf
    /\ PxInit
    /\ StInit
    /\ NoUnmount

NextParallax ==
    \/ \E y \in ScrollYs : PxScroll(y)
    \/ \E top \in PageTops : PxResize(top)
    \/ PxFrame

SpecParallax == InitParallax /\ [][NextParallax]_vars

\* The App's tracker and anchor handler beside one useParallaxRelative(0.25)
\* layer whose scroll and resize handlers run; the frames of the layer
\* belong to SpecParallax.
InitTracker ==
    /\ op = "mount"
    /\ reduced = FALSE
    /\ GcInit
    /\ Len(images) = MaxImages
    /\ AsInit
    /\ Len(safeImages) = MaxImages /\ speed = 40 /\ pauseOnHover
    /\ clientWidth = 4 /\ scrollWidth = 2 * MinHalf
    /\ PxInit
    /\ pKind = "hook" /\ bg /\ container /\ pSpeed = 25
    /\ scrollY = 0 /\ pageTop = 100
    /\ StInit
    /\ NoUnmount

NextTracker ==
    \/ \E entries \in Batches : Observe(entries)
    \/ \E id \in Anchors : AnchorClick(id)
    \/ \E y \in ScrollYs : PxScroll(y)
    \/ \E top \in PageTops : PxResize(top)

SpecTracker == InitTracker /\ [][NextTracker]_vars

NextCarousel ==
    \/ AutoplayTick
    \/ \E dir \in {-1, 1} : go(dir)
    \/ \E i \in 0..(Len(images) - 1) : DotClick(i)
    \/ onEnd
    \/ GcFrame
    \/ GcMouseEnter
    \/ GcMouseLeave

SpecCarousel == Init /\ [][NextCarousel]_vars

\* Frames are rendered: a requested animation frame callback runs.
FairCarousel == SpecCarousel /\ WF_vars(GcFrame)

\* The page with one of its components followed through its unmount.
InitTeardown ==
    /\ op = "mount"
    /\ reduced \in BOOLEAN
    /\ study \in Components
    /\ cleanups = 0
    /\ GcInit
    /\ study # "carousel" => Len(images) = MaxImages
    /\ AsInit
    /\ study # "strip" =>
          /\ Len(safeImages) = MaxImages /\ speed = 40 /\ pauseOnHover
          /\ clientWidth = 4 /\ scrollWidth = 2 * MinHalf
    /\ IF study = "parallax" THEN PxInit ELSE PxIdle
    /\ StInit

NextTeardown ==
    \/ /\ study = "parallax"
       /\ \/ \E y \in ScrollYs : PxScroll(y)
          \/ \E top \in PageTops : PxResize(top)
          \/ PxFrame
          \/ PxCleanup
    \/ /\ study = "tracker"
       /\ \/ \E entries \in Batches : Observe(entries)
          \/ \E id \in Anchors : AnchorClick(id)
          \/ StCleanup
    \/ /\ study = "strip"
       /\ (NextStrip \/ AsCleanup)
    \/ /\ study = "carousel"
       /\ (NextCarousel \/ GcCleanup)

SpecTeardown == InitTeardown /\ [][NextTeardown]_vars

\* ------------------------------------------- GalleryCarousel: properties
\* The index addresses a slot of slides (0-based, as the code indexes).
SlotExists == index >= 0 /\ index <= Len(slides) - 1

\* The image of the slot the track is translated to.
VisibleImage == slides[index + 1]

\* Cyclic successor and predecessor of an image of the list.
SuccImage(img) == images[(img % Len(images)) + 1]
PredImage(img) == images[((img - 2 + Len(images)) % Len(images)) + 1]

\* C1: whatever the interleaving of autoplay ticks, prev/next commands, dot
\* selections, hover, transition-completed signals and frame callbacks, the
\* index stays within [0, N+1].
C1_IndexInBounds == index >= 0 /\ index <= Len(images) + 1

\* C2: the displayed real index (index - 1 + N) mod N lies within [0, N-1],
\* so exactly one dot is highlighted.
C2_RealIndexInRange == realIndex >= 0 /\ realIndex <= Len(images) - 1

\* C3: the visible image sequence is cyclic with no seam: the index always
\* addresses an existing slot whose image is images[realIndex]; a next
\* command or autoplay tick shows the cyclic successor, a prev command the
\* cyclic predecessor, and a corrective snap keeps the visible image.
C3_VisibleSequenceCyclic ==
    /\ [](SlotExists /\ VisibleImage = images[realIndex + 1])
    /\ [][(op' \in {"next", "tick"} /\ SlotExists)
            => (SlotExists' /\ VisibleImage' = SuccImage(VisibleImage))]_vars
    /\ [][(op' = "prev" /\ SlotExists)
            => (SlotExists' /\ VisibleImage' = PredImage(VisibleImage))]_vars
    /\ [][(op' = "onEnd" /\ SlotExists)
            => (SlotExists' /\ VisibleImage' = VisibleImage)]_vars

\* C4: forward wrap: advancing by one from index N leads to the trailing
\* clone N+1; the transition-completed signal received there yields index 1
\* with animation disabled; the following frame callback re-enables it, and
\* a disabled animation is always re-enabled.
C4_ForwardWrap ==
    /\ [][(op' \in {"next", "tick"} /\ index = Len(images))
            => (index' = Len(images) + 1 /\ isAnimating')]_vars
    /\ [][(op' = "onEnd" /\ index = Len(images) + 1)
            => (index' = 1 /\ ~isAnimating' /\ gcRafId')]_vars
    /\ [][(op' = "gcFrame") => (isAnimating' /\ index' = index)]_vars
    /\ ((~isAnimating) ~> isAnimating)

\* C4 witness: the forward snap has just happened.
C4_Witness ==
    /\ op = "onEnd" /\ index = 1 /\ ~isAnimating /\ Len(images) >= 2

\* C5: backward wrap: prev from index 1 leads to the leading clone 0; the
\* transition-completed signal received there yields index N with animation
\* disabled on that corrective step.
C5_BackwardWrap ==
    /\ [][(op' = "prev" /\ index = 1) => (index' = 0 /\ isAnimating')]_vars
    /\ [][(op' = "onEnd" /\ index = 0)
            => (index' = Len(images) /\ ~isAnimating')]_vars

\* C5 witness: the backward snap has just happened.
C5_Witness ==
    /\ op = "onEnd" /\ index = Len(images) /\ ~isAnimating /\ Len(images) >= 2

\* ----------------------------------------- AutoScrollGallery: properties
\* The offset lies within [0, half the track width).
OffsetInRange == scrollLeft >= 0 /\ 2 * scrollLeft < scrollWidth

\* The largest offset the DOM allows.
ScrollMax == scrollWidth - clientWidth

\* C6: with N >= 2 images, starting from offset 0, after any number of
\* autoplay frame ticks with any elapsed times (no prev/next button used),
\* the scroll offset stays within [0, scrollWidth/2).
C6_AutoplayOffsetInRange == (hasLoop /\ ~manual) => OffsetInRange

\* C6 witness: an autoplay tick has just performed the seamless reset.
C6_Witness == hasLoop /\ ~manual /\ op = "frameWrap" /\ OffsetInRange

\* C7: with N >= 2 images, under any interleaving of autoplay ticks, manual
\* directional commands (also while hovered and paused) and resizes, the
\* scroll offset is never negative and never leaves [0, scrollWidth/2).
C7_OffsetAlwaysInRange == hasLoop => OffsetInRange

\* C8: whatever the order of pointer-enter, pointer-leave and visibility
\* events, while the pointer hovers the strip (pauseOnHover enabled) or the
\* strip is outside the viewport, the strip is paused and no frame tick
\* changes the scroll offset.
C8_PausedWhileHoveredOrHidden ==
    /\ [](((pauseOnHover /\ hovering) \/ ~visible) => isPaused)
    /\ [][(op' \in FrameOps /\ ((pauseOnHover /\ hovering) \/ ~visible))
            => scrollLeft' = scrollLeft]_vars

\* C9: with N >= 2 images and no reduced motion, once the strip is reported
\* visible again and the pointer is not hovering, autoplay has resumed by
\* itself: the strip is not paused, so the next frame tick advances from the
\* offset held while paused.
C9_ResumesWhenVisibleAgain ==
    (hasLoop /\ ~reduced /\ op = "io" /\ visible /\ ~hovering) => ~isPaused

\* C10: with the reduced-motion preference set the ticker never starts (no
\* frame callback is requested), no frame changes the scroll offset, and a
\* prev/next button still scrolls the strip towards its side while there is
\* room.
C10_ReducedMotion ==
    /\ [](reduced => (~rafId /\ ~ro))
    /\ [][(reduced /\ op' \in FrameOps) => scrollLeft' = scrollLeft]_vars
    /\ [][(reduced /\ op' = "scrollNext" /\ scrollLeft < ScrollMax)
            => scrollLeft' > scrollLeft]_vars
    /\ [][(reduced /\ op' = "scrollPrev" /\ scrollLeft > 0)
            => scrollLeft' < scrollLeft]_vars

\* C10 witness: under reduced motion a frame passed after a next command
\* had scrolled the strip.
C10_Witness == reduced /\ hasLoop /\ manual /\ scrollLeft > 0 /\ op = "frameIdle"

\* C11: with the reduced-motion preference set the carousel's autoplay is
\* suppressed (no timer tick ever advances the index), while prev/next
\* commands and dot selections still move the index.
C11_CarouselReducedMotion ==
    /\ [][(reduced /\ op' = "tick") => index' = index]_vars
    /\ [][(reduced /\ op' = "next") => index' = index + 1]_vars
    /\ [][(reduced /\ op' = "prev") => index' = index - 1]_vars
    /\ [][(reduced /\ op' = "dot") => index' \in 1..Len(images)]_vars


\* ------------------------------------------------------ parallax claims
\* The transform useParallaxRelative writes for scroll position y, cached
\* container top c and speed s: translateY((y - c) * s) scale(1.05).
HookTransform(y, c, s) == [set |-> TRUE, ty |-> ((y - c) * s) \div 100, scale |-> TRUE]

C13_TracksLatestScroll ==
    (op = "pFrame" /\ writes >= 1)
        => transform = Transform(pKind, scrollY, containerTop, pSpeed, offsetY)


\* C14: for any sequence of scroll and resize events on a parallax instance
\* at most one animation-frame request is outstanding at any time, and at
\* most one transform write happens in a rendered frame.
C14_Coalescing == Len(frameQueue) <= 1 /\ writes <= 1

\* Several events arrived since the last frame and one request is outstanding.
C14_Witness == burst = 2 /\ Len(frameQueue) = 1 /\ raf = 1 /\ lastY # frameQueue[1]


\* C15: with reduced motion off, every resize event recomputes the cached
\* container top and leaves a frame callback pending even when scrollY is
\* unchanged, and the next frame callback computes the offset with the new
\* container top.
C15_ResizeRecomputes ==
    /\ [][(op' = "pResize" /\ listening /\ ~reduced)
            => /\ containerTop' = GetContainerTop(container, pageTop')
               /\ raf' = 1 /\ Len(frameQueue') = 1]_vars
    /\ [][(op' = "pFrame" /\ listening /\ frameQueue # <<>>)
            => transform' = Transform(pKind, frameQueue[Len(frameQueue)],
                                      GetContainerTop(container, pageTop),
                                      pSpeed, offsetY)]_vars

\* The layer was placed for this scrollY with the top at 100; a resize moved
\* the container to 300 and requested a frame for the unchanged scrollY.
C15_Witness ==
    /\ op = "pResize" /\ listening /\ ~reduced /\ container
    /\ transform = Transform(pKind, scrollY, 100, pSpeed, offsetY)
    /\ containerTop = 300 /\ frameQueue = <<scrollY>> /\ raf = 1


\* C16: with the reduced-motion preference set, no sequence of scroll and
\* resize events changes the transform of a background layer or of the logo
\* layer: no frame is requested and the style is never written.
C16_ReducedParallax ==
    /\ [](reduced => (transform = NoTransform /\ frameQueue = <<>> /\ raf = 0))
    /\ [][reduced => transform' = transform]_vars

\* Scroll and resize events reached the hook's attached listeners under
\* reduced motion and the layer is untouched.
C16_Witness ==
    /\ reduced /\ pKind = "hook" /\ listening /\ burst = 2
    /\ op \in {"pScroll", "pResize"} /\ transform = NoTransform


\* C18: useParallaxRelative mounted with the background element or the
\* container absent is a no-op: no listener is attached, no frame is ever
\* requested and no transform is ever written.
C18_MissingTargetNoOp ==
    (pKind = "hook" /\ (~bg \/ ~container))
        => /\ ~listening /\ raf = 0 /\ frameQueue = <<>>
           /\ transform = NoTransform /\ writes = 0

\* The page scrolled while the hook had a background but no container.
C18_Witness ==
    /\ pKind = "hook" /\ bg /\ ~container /\ ~reduced
    /\ op = "pScroll" /\ scrollY = 500 /\ transform = NoTransform


\* -------------------------------------------------------- tracker claims
\* C19: after any sequence of observation callbacks the active id is the id
\* of the most recently reported intersecting entry (within one batch the
\* last intersecting entry in enumeration order), and a batch without an
\* intersecting entry never changes the active id.
C19_LastObservedWins ==
    /\ [](lastSeen # "" => active = lastSeen)
    /\ [][(op' = "observe" /\ batchHits' = 0) => active' = active]_vars

\* One batch reported "process" and then "gallery" as intersecting.
C19_Witness ==
    /\ op = "observe" /\ batchHits = 2
    /\ firstHit = "process" /\ lastSeen = "gallery" /\ active = "gallery"

\* C20: the active section is initially the first section id, is always one
\* of the declared section ids, and is written only by the observation
\* callback: anchor clicks and scroll/resize handlers never change it.
C20_ActiveSectionState ==
    /\ active = sections[1]
    /\ [](active \in SectionIds)
    /\ [][active' # active => op' = "observe"]_vars

\* A click on the link to #contact after scroll events, with "process" active.
C20_Witness ==
    /\ op = "anchor" /\ scrollTarget = "contact" /\ active = "process"
    /\ scrollY = 500 /\ burst = 2


\* ------------------------------------------------------- teardown claims
\* The component holds no listener, observer, interval timer or requested
\* animation frame.
NoSubscriptions(c) ==
    CASE c = "parallax" -> ~listening /\ frameQueue = <<>>
      [] c = "tracker"  -> ~obs /\ ~clickListener
      [] c = "strip"    -> ~rafId /\ ~ro /\ ~io
      [] c = "carousel" -> ~gcTimer /\ ~gcEndListener /\ ~gcRafId
      [] OTHER          -> TRUE

\* What the components write: transform, offset, index and their React state.
Written == <<transform, scrollLeft, index, isAnimating, paused, isPaused, active,
             lastY, raf, containerTop>>

\* C17: after a component's cleanup has run it holds no attached listener,
\* observer, interval timer or pending animation-frame request, nothing it
\* requested before writes a transform, offset or state afterwards, and a
\* further invocation of the cleanup changes nothing.
C17_Teardown ==
    /\ [](cleanups > 0 => NoSubscriptions(study))
    /\ [][cleanups > 0 => UNCHANGED Written]_vars
    /\ [][(cleanups > 0 /\ op' = "cleanup")
            => UNCHANGED <<reduced, gcVars, asVars, pxVars, stVars>>]_vars

\* The parallax cleanup ran twice with a frame requested (raf is still set,
\* the request is gone), then a frame was rendered and wrote nothing.
C17_Witness ==
    /\ study = "parallax" /\ cleanups = 2 /\ op = "pFrame"
    /\ raf = 1 /\ frameQueue = <<>> /\ writes = 0 /\ transform = NoTransform


\* ------------------------------------------------- further strip claims
\* C21: with fewer than 2 images the strip's track is the image list once,
\* the ticker and the resize observer never start, no prev/next command is
\* offered, and no rendered frame changes the scroll offset.
C21_NoLoopStatic ==
    /\ [](Len(safeImages) < 2 => (track = safeImages /\ ~rafId /\ ~ro))
    /\ [][(Len(safeImages) < 2 /\ op' \in FrameOps)
            => (op' = "frameIdle" /\ scrollLeft' = scrollLeft)]_vars
    /\ [][Len(safeImages) < 2 => op' \notin {"scrollNext", "scrollPrev"}]_vars

\* A frame was rendered for a strip of one image, reduced motion off.
C21_Witness ==
    /\ Len(safeImages) = 1 /\ ~reduced /\ op = "frameIdle"
    /\ track = safeImages /\ scrollLeft = 0


\* ---------------------------------------------- further carousel claims
\* C22: the autoplay interval runs exactly while the hover pause flag is
\* clear and the image list is non-empty; each of its ticks advances the
\* index by exactly 1 and enables the animation; no tick happens while the
\* flag is set, and the interval runs again once the flag clears.
C22_Autoplay ==
    /\ [](gcTimer <=> (~paused /\ Len(images) # 0))
    /\ [][op' = "tick"
            => (~paused /\ index' = index + 1 /\ isAnimating')]_vars
    /\ [][op' = "gcLeave" => (~paused' /\ gcTimer')]_vars

\* A tick moved the carousel from the first to the second slide.
C22_Witness ==
    /\ op = "tick" /\ index = 2 /\ isAnimating /\ ~paused /\ gcTimer


\* The steps that move the carousel: navigation and autoplay.
MoveOps == {"tick", "next", "prev", "dot"}

\* C23: the animation is disabled only by a corrective snap; while it is
\* disabled the index is 1 or N and a frame is requested; the frame callback
\* and every navigation or autoplay step re-enable it, so it never stays
\* disabled.
C23_AnimationFlag ==
    /\ [](~isAnimating => (index \in {1, Len(images)} /\ gcRafId))
    /\ [][(isAnimating /\ ~isAnimating') => op' = "onEnd"]_vars
    /\ [][(~isAnimating /\ op' \in MoveOps \cup {"gcFrame"}) => isAnimating']_vars
    /\ (~isAnimating ~> isAnimating)

\* The frame after a backward snap re-enabled the animation on the last slide.
C23_Witness ==
    /\ op = "gcFrame" /\ isAnimating /\ ~gcRafId
    /\ Len(images) = 3 /\ index = 3


\* C24: a directional command d enables the animation and changes the index
\* by exactly d; selecting dot t sets the index to t + 1 with the animation
\* enabled whatever the index was, so the displayed real index becomes t.
C24_ManualNavigation ==
    /\ [][op' = "next" => (index' = index + 1 /\ isAnimating')]_vars
    /\ [][op' = "prev" => (index' = index - 1 /\ isAnimating')]_vars
    /\ [][\A t \in 0..(MaxImages - 1) :
            DotClick(t) => (index' = t + 1 /\ isAnimating' /\ realIndex' = t)]_vars

\* The last dot of three was selected and the track is moving there.
C24_Witness ==
    /\ op = "dot" /\ Len(images) = 3 /\ index = 3 /\ realIndex = 2
    /\ isAnimating /\ transitioning


\* The offset after a tick of e milliseconds that advances it by
\* speed * min(e, 50) / 1000.
TickTarget(e) == scrollLeft + (speed * Min(e, ClampMs)) \div MsPerSec

\* C25: each unpaused frame tick advances the offset by speed *
\* min(elapsedMs, 50) / 1000 (less half the track when the seamless reset
\* applies), so no tick advances it by more than speed * 50 / 1000; a paused
\* tick leaves the offset unchanged.
C25_PerTickAdvance ==
    /\ [][\A e \in Elapsed :
            (AsFrame(e) /\ rafId /\ ~isPaused)
                => scrollLeft' \in {TickTarget(e), TickTarget(e) - scrollWidth \div 2}]_vars
    /\ [][op' \in FrameOps
            => scrollLeft' - scrollLeft <= (speed * ClampMs) \div MsPerSec]_vars
    /\ [][op' = "framePaused" => scrollLeft' = scrollLeft]_vars


\* C26: on any container resize of a looping strip with half track width
\* h > 0 the offset becomes (previous offset mod h), so afterwards it lies in
\* [0, h); with h = 0 the offset is left unchanged.
C26_ResizeNormalizes ==
    [][(op' = "resize" /\ hasLoop)
        => IF scrollWidth' \div 2 > 0
           THEN /\ scrollLeft' = scrollLeft % (scrollWidth' \div 2)
                /\ OffsetInRange'
           ELSE scrollLeft' = scrollLeft]_vars


\* C27: across any sequence of pause/resume toggles and speed changes, each
\* of which tears down and restarts the ticker effect, at most one
\* animation-frame loop and one resize observer are active at any time, and
\* at most one step runs in a rendered frame.
C27_SingleTickSource ==
    /\ asLoops = (IF rafId THEN 1 ELSE 0)
    /\ asObservers = (IF ro THEN 1 ELSE 0)
    /\ asSteps <= 1

\* The pointer left the strip (a resume that restarted the effect) after a
\* frame in which one step ran; one loop and one observer are active.
C27_Witness ==
    /\ op = "asLeave" /\ pauseOnHover /\ ~isPaused /\ speed = 80
    /\ asLoops = 1 /\ asObservers = 1 /\ asSteps = 1 /\ scrollLeft > 0

====
